---- MODULE Spec2Model ----
(***************************************************************************)
(* The AdView component of src/src/AdView.tsx as a state machine: one      *)
(* mount of the component, the render passes React runs on it, the two     *)
(* effects that follow each pass, the native module's asynchronous         *)
(* responses (isTablet, isInitialized, getAdaptiveBannerHeightForWidth),   *)
(* the imperative loadAd() handle and the parent's changes of props.       *)
(***************************************************************************)
EXTENDS Integers, Sequences, FiniteSets, TLC

VARIABLES
    mounted,          \* the component instance is mounted
    adFormat,         \* prop adFormat
    adaptiveBannerEnabled, \* prop adaptiveBannerEnabled
    style,            \* prop style, flattened: width / height, Absent when not declared
    screenWidth,      \* useWindowDimensions().width
    tablet,           \* what the device answers to isTablet()
    isInitialized,    \* useState<boolean>(false)
    adFormatSize,     \* useRef<SizeRecord>({})
    sizeProps,        \* useRef<SizeRecord>({})
    dimensions,       \* useRef<SizeRecord>({})
    adViewRef,        \* useRef<AdViewType | null>(null): TRUE when it holds an element
    depFormat,        \* the adFormat the [adFormat] effect last ran with
    pc,               \* "idle", or "effects" between a render pass and its effects
    renderInit,       \* isInitialized as captured by the pass whose effects are pending
    renderScheduled,  \* React has a render pass of this component to run
    output,           \* what the last render pass returned
    tabletQ,          \* outstanding isTablet() queries
    initQ,            \* outstanding isInitialized() queries
    sizeQ,            \* outstanding getAdaptiveBannerHeightForWidth() queries, oldest first
    forceUpdateCalls, \* number of forceUpdate() calls made
    warnings,         \* number of console.warn() calls made
    commands,         \* TRUE once loadAd() has dispatched a view manager command
    lastInit,         \* the most recent isInitialized() response: "none", "true", "false"
    changes,          \* number of prop / screen changes the parent has made
    everRendered      \* a pass of this mount has returned the native view

vars == <<mounted, adFormat, adaptiveBannerEnabled, style, screenWidth, tablet,
          isInitialized, adFormatSize, sizeProps, dimensions, adViewRef, depFormat,
          pc, renderInit, renderScheduled, output, tabletQ, initQ, sizeQ,
          forceUpdateCalls, warnings, commands, lastInit, changes, everRendered>>

\* ---------------------------------------------------------------- bounds

\* The parent changes a prop (or the window its width) at most this often.
MaxChanges == 2

\* ---------------------------------------------------------------- values

\* The DimensionValue 'auto', JS undefined, and "this key is not in the object".
Auto == -1
Undefined == -2
Absent == -3

BANNER == "banner"
MREC == "mrec"
AdFormat == {BANNER, MREC}

ADVIEW_SIZE ==
    [banner |-> [width |-> 320, height |-> 50],
     leader |-> [width |-> 728, height |-> 90],
     mrec   |-> [width |-> 300, height |-> 250]]

\* {} : a SizeRecord with no keys.
EmptyRecord == [width |-> Absent, height |-> Absent]

\* rec.key : reading a key that is not there gives undefined.
Prop(rec, key) == IF rec[key] = Absent THEN Undefined ELSE rec[key]

\* Object.keys(rec).length
KeyCount(rec) == Cardinality({k \in {"width", "height"} : rec[k] # Absent})

\* The declared widths and heights the parent chooses among (Absent: not declared),
\* the window widths, and the heights the native module answers.
StyleWidths == {Absent, 300, 390}
StyleHeights == {Absent, 250}
ScreenWidths == {390, 428}
AdaptiveHeights == {50, 61}

Styles == [width : StyleWidths, height : StyleHeights]

\* What a render pass returns: null, or the native view with the size of its style.
NullOutput == [view |-> FALSE, width |-> Absent, height |-> Absent]
ViewOutput(dims) == [view |-> TRUE, width |-> Prop(dims, "width"), height |-> Prop(dims, "height")]

\* ---------------------------------------------------------------- pure functions

\* getOutlineViewSize: 'auto' for an unspecified width / height.
getOutlineViewSize(st) ==
    [width  |-> IF st.width = Absent THEN Auto ELSE st.width,
     height |-> IF st.height = Absent THEN Auto ELSE st.height]

\* sizeBannerDimensions with the adaptive flag tested before the declared height.
sizeBannerDimensionsAdaptiveFirst(props, adaptive, sw, bannerFormatSize) ==
    LET width == IF props.width = Auto THEN sw ELSE props.width
    IN  IF adaptive
        THEN [width |-> width, await |-> TRUE, arg |-> sw, height |-> Undefined]
        ELSE [width |-> width, await |-> FALSE, arg |-> Undefined,
              height |-> IF props.height = Auto THEN Prop(bannerFormatSize, "height")
                         ELSE props.height]

\* sizeBannerDimensions, up to its await: the width of the result, whether the height
\* is awaited from the native module and with which argument, and the height when not.
sizeBannerDimensions(props, adaptive, sw, bannerFormatSize) ==
    LET width == IF props.width = Auto THEN sw ELSE props.width
    IN  IF props.height = Auto
        THEN IF adaptive
             THEN [width |-> width, await |-> TRUE, arg |-> sw, height |-> Undefined]
             ELSE [width |-> width, await |-> FALSE, arg |-> Undefined,
                   height |-> Prop(bannerFormatSize, "height")]
        ELSE [width |-> width, await |-> FALSE, arg |-> Undefined, height |-> props.height]

\* The size the MREC branch of the sizing effect stores.
sizeMrecDimensions(props, formatSize) ==
    [width  |-> IF props.width = Auto THEN Prop(formatSize, "width") ELSE props.width,
     height |-> IF props.height = Auto THEN Prop(formatSize, "height") ELSE props.height]

\* The test of the .then callback with && written for ||.
SizeDiffersInBoth(dims, adaptedSize) ==
    /\ Prop(dims, "width") # adaptedSize.width
    /\ Prop(dims, "height") # adaptedSize.height

\* The test of the .then callback: does the adapted size differ from dimensions.current.
SizeDiffers(dims, adaptedSize) ==
    \/ Prop(dims, "width") # adaptedSize.width
    \/ Prop(dims, "height") # adaptedSize.height

\* The test of the sizing effect when the declared dimensions are never recorded
\* (line 211 left out): it finds no match.
SamePropsNeverRecorded(props, outline) == FALSE

\* The test of the sizing effect: are the declared dimensions those of the last resolution.
SamePropsAsBefore(props, outline) ==
    /\ Prop(props, "width") = outline.width
    /\ Prop(props, "height") = outline.height

\* The render function without its "Not initialized" gate.
RenderOutputUngated(initialized, dims) ==
    IF ~(KeyCount(dims) > 0) THEN NullOutput ELSE ViewOutput(dims)

\* The render function returning null again while a resolution is awaited.
RenderOutputNullWhileSizing(initialized, dims) ==
    IF ~initialized \/ ~(KeyCount(dims) > 0) \/ sizeQ # <<>> THEN NullOutput
    ELSE ViewOutput(dims)

\* The gate of the render function.
RenderOutput(initialized, dims) ==
    IF ~initialized THEN NullOutput
    ELSE IF ~(KeyCount(dims) > 0) THEN NullOutput
    ELSE ViewOutput(dims)

\* ---------------------------------------------------------------- initial state

Init ==
    /\ mounted = TRUE
    /\ adFormat \in AdFormat
    /\ adaptiveBannerEnabled \in BOOLEAN
    /\ style \in Styles
    /\ screenWidth = 390
    /\ tablet \in BOOLEAN
    /\ isInitialized = FALSE
    /\ adFormatSize = EmptyRecord
    /\ sizeProps = EmptyRecord
    /\ dimensions = EmptyRecord
    /\ adViewRef = FALSE
    /\ depFormat = "none"
    /\ pc = "idle"
    /\ renderInit = FALSE
    /\ renderScheduled = TRUE
    /\ output = NullOutput
    /\ tabletQ = 0
    /\ initQ = 0
    /\ sizeQ = <<>>
    /\ forceUpdateCalls = 0
    /\ warnings = 0
    /\ commands = FALSE
    /\ lastInit = "none"
    /\ changes = 0
    /\ everRendered = FALSE

\* ---------------------------------------------------------------- helpers of the actions

\* saveElement: the ref callback keeps the element it is given and ignores null.
saveElement(current, element) == IF element THEN TRUE ELSE current

\* The sizing effect without its test of the declared dimensions (line 209).
SizingRunsEveryPass(initialized, props, outline) == initialized

\* The guard of the sizing effect: it returns early when the component is not
\* initialized, or when the declared dimensions are those of the last resolution.
SizingRuns(initialized, props, outline) ==
    /\ initialized
    /\ ~SamePropsAsBefore(props, outline)

\* useEffect(...) : the mount effect with no dependency list.
FormatEffectRunsEveryPass(format, dep) == TRUE

\* useEffect(..., [adFormat]) : the effect runs after the first pass and after a pass
\* whose adFormat is not the one it last ran with.
FormatEffectRuns(format, dep) == format # dep

\* loadAd() without its test of adViewRef.current.
LoadAdDispatchesAlways(ref) == TRUE

\* The guard of loadAd(): a command is dispatched when adViewRef.current is set.
LoadAdDispatches(ref) == ref

\* The MREC branch of the sizing effect calls forceUpdate() whatever it stored.
MrecForcesUpdate(dims, newDims) == TRUE

\* The queue without its i-th query; the older ones, still outstanding, are marked
\* as overtaken by the answer to a younger one.
Answered(q, i) ==
    [j \in 1..(Len(q) - 1) |->
        IF j < i THEN [q[j] EXCEPT !.overtaken = TRUE] ELSE q[j + 1]]

\* ---------------------------------------------------------------- the component

\* A render pass: the function body down to its return, and the commit of what it
\* returned (the ref callback runs when the native view is attached).
Render ==
    /\ mounted
    /\ pc = "idle"
    /\ renderScheduled
    /\ output' = RenderOutput(isInitialized, dimensions)
    /\ adViewRef' = saveElement(adViewRef, output'.view)
    /\ everRendered' = (everRendered \/ output'.view)
    /\ renderInit' = isInitialized
    /\ renderScheduled' = FALSE
    /\ pc' = "effects"
    /\ UNCHANGED <<mounted, adFormat, adaptiveBannerEnabled, style, screenWidth, tablet,
                   isInitialized, adFormatSize, sizeProps, dimensions, depFormat,
                   tabletQ, initQ, sizeQ, forceUpdateCalls, warnings, commands,
                   lastInit, changes>>

\* The effects of a render pass, in order: the [adFormat] effect when adFormat is new,
\* then the sizing effect. A BANNER resolution that awaits nothing is settled at once,
\* its .then callback included.
Effects ==
    /\ pc = "effects"
    /\ LET runFormat == FormatEffectRuns(adFormat, depFormat)
           formatSize == IF runFormat /\ adFormat # BANNER
                         THEN ADVIEW_SIZE.mrec ELSE adFormatSize
           outline == getOutlineViewSize(style)
           runSizing == SizingRuns(renderInit, sizeProps, outline)
           b == sizeBannerDimensions(outline, adaptiveBannerEnabled, screenWidth, formatSize)
           adaptedSize == [width |-> b.width, height |-> b.height]
           mrecSize == sizeMrecDimensions(outline, formatSize)
           bannerNow == runSizing /\ adFormat = BANNER /\ ~b.await
           bannerStores == bannerNow /\ SizeDiffers(dimensions, adaptedSize)
           mrecNow == runSizing /\ adFormat # BANNER
           forces == bannerStores \/ (mrecNow /\ MrecForcesUpdate(dimensions, mrecSize))
       IN  /\ depFormat' = adFormat
           /\ tabletQ' = IF runFormat /\ adFormat = BANNER THEN tabletQ + 1 ELSE tabletQ
           /\ initQ' = IF runFormat THEN initQ + 1 ELSE initQ
           /\ adFormatSize' = formatSize
           /\ sizeProps' = IF runSizing THEN outline ELSE sizeProps
           /\ sizeQ' = IF runSizing /\ adFormat = BANNER /\ b.await
                       THEN Append(sizeQ, [width |-> b.width, arg |-> b.arg,
                                           overtaken |-> FALSE])
                       ELSE sizeQ
           /\ dimensions' = IF bannerStores THEN adaptedSize
                            ELSE IF mrecNow THEN mrecSize ELSE dimensions
           /\ forceUpdateCalls' = IF forces THEN forceUpdateCalls + 1 ELSE forceUpdateCalls
           /\ renderScheduled' = (renderScheduled \/ forces)
    /\ pc' = "idle"
    /\ renderInit' = FALSE
    /\ UNCHANGED <<mounted, adFormat, adaptiveBannerEnabled, style, screenWidth, tablet,
                   isInitialized, adViewRef, output, warnings, commands,
                   lastInit, changes, everRendered>>

\* The .then callback of AppLovinMAX.isTablet().
TabletResponse ==
    /\ tabletQ > 0
    /\ tabletQ' = tabletQ - 1
    /\ adFormatSize' = IF tablet THEN ADVIEW_SIZE.leader ELSE ADVIEW_SIZE.banner
    /\ UNCHANGED <<mounted, adFormat, adaptiveBannerEnabled, style, screenWidth, tablet,
                   isInitialized, sizeProps, dimensions, adViewRef, depFormat, pc,
                   renderInit, renderScheduled, output, initQ, sizeQ, forceUpdateCalls,
                   warnings, commands, lastInit, changes, everRendered>>

\* The .then callback of AppLovinMAX.isInitialized(). React drops a state update of
\* an unmounted component, and schedules no pass for a state that does not change.
InitializedResponse(result) ==
    /\ initQ > 0
    /\ initQ' = initQ - 1
    /\ isInitialized' = IF mounted THEN result ELSE isInitialized
    /\ renderScheduled' = (renderScheduled \/ (mounted /\ result # isInitialized))
    /\ warnings' = IF ~result THEN warnings + 1 ELSE warnings
    /\ lastInit' = IF result THEN "true" ELSE "false"
    /\ UNCHANGED <<mounted, adFormat, adaptiveBannerEnabled, style, screenWidth, tablet,
                   adFormatSize, sizeProps, dimensions, adViewRef, depFormat, pc,
                   renderInit, output, tabletQ, sizeQ, forceUpdateCalls, commands, changes, everRendered>>

\* The native module answers the i-th outstanding adaptive-height query with `height`:
\* sizeBannerDimensions resumes after its await and the .then callback runs.
HeightResponse(i, height) ==
    /\ i \in 1..Len(sizeQ)
    /\ LET adaptedSize == [width |-> sizeQ[i].width, height |-> height]
           stores == SizeDiffers(dimensions, adaptedSize)
       IN  /\ dimensions' = IF stores THEN adaptedSize ELSE dimensions
           /\ forceUpdateCalls' = IF stores THEN forceUpdateCalls + 1 ELSE forceUpdateCalls
           /\ renderScheduled' = (renderScheduled \/ (mounted /\ stores))
    /\ sizeQ' = Answered(sizeQ, i)
    /\ UNCHANGED <<mounted, adFormat, adaptiveBannerEnabled, style, screenWidth, tablet,
                   isInitialized, adFormatSize, sizeProps, adViewRef, depFormat, pc,
                   renderInit, output, tabletQ, initQ, warnings, commands,
                   lastInit, changes, everRendered>>

\* loadAd() through the imperative handle, which exists once the first pass is committed.
LoadAd ==
    /\ mounted
    /\ (pc = "effects" \/ depFormat # "none")
    /\ commands' = (commands \/ LoadAdDispatches(adViewRef))
    /\ UNCHANGED <<mounted, adFormat, adaptiveBannerEnabled, style, screenWidth, tablet,
                   isInitialized, adFormatSize, sizeProps, dimensions, adViewRef,
                   depFormat, pc, renderInit, renderScheduled, output, tabletQ, initQ,
                   sizeQ, forceUpdateCalls, warnings, lastInit, changes, everRendered>>

\* ---------------------------------------------------------------- the parent and the window

\* React flushes the effects of a pass before it starts the next one, so the parent's
\* changes and the unmount find the component with no effects pending.
ChangeStyle(st) ==
    /\ mounted /\ pc = "idle" /\ changes < MaxChanges
    /\ st # style
    /\ style' = st
    /\ renderScheduled' = TRUE
    /\ changes' = changes + 1
    /\ UNCHANGED <<mounted, adFormat, adaptiveBannerEnabled, screenWidth, tablet,
                   isInitialized, adFormatSize, sizeProps, dimensions, adViewRef,
                   depFormat, pc, renderInit, output, tabletQ, initQ, sizeQ,
                   forceUpdateCalls, warnings, commands, lastInit, everRendered>>

ChangeScreenWidth(w) ==
    /\ mounted /\ pc = "idle" /\ changes < MaxChanges
    /\ w # screenWidth
    /\ screenWidth' = w
    /\ renderScheduled' = TRUE
    /\ changes' = changes + 1
    /\ UNCHANGED <<mounted, adFormat, adaptiveBannerEnabled, style, tablet,
                   isInitialized, adFormatSize, sizeProps, dimensions, adViewRef,
                   depFormat, pc, renderInit, output, tabletQ, initQ, sizeQ,
                   forceUpdateCalls, warnings, commands, lastInit, everRendered>>

ChangeAdFormat(f) ==
    /\ mounted /\ pc = "idle" /\ changes < MaxChanges
    /\ f # adFormat
    /\ adFormat' = f
    /\ renderScheduled' = TRUE
    /\ changes' = changes + 1
    /\ UNCHANGED <<mounted, adaptiveBannerEnabled, style, screenWidth, tablet,
                   isInitialized, adFormatSize, sizeProps, dimensions, adViewRef,
                   depFormat, pc, renderInit, output, tabletQ, initQ, sizeQ,
                   forceUpdateCalls, warnings, commands, lastInit, everRendered>>

ChangeAdaptiveBannerEnabled ==
    /\ mounted /\ pc = "idle" /\ changes < MaxChanges
    /\ adaptiveBannerEnabled' = ~adaptiveBannerEnabled
    /\ renderScheduled' = TRUE
    /\ changes' = changes + 1
    /\ UNCHANGED <<mounted, adFormat, style, screenWidth, tablet,
                   isInitialized, adFormatSize, sizeProps, dimensions, adViewRef,
                   depFormat, pc, renderInit, output, tabletQ, initQ, sizeQ,
                   forceUpdateCalls, warnings, commands, lastInit, everRendered>>

\* The parent renders again with the props it gave before.
ParentRerender ==
    /\ mounted /\ pc = "idle"
    /\ ~renderScheduled
    /\ renderScheduled' = TRUE
    /\ UNCHANGED <<mounted, adFormat, adaptiveBannerEnabled, style, screenWidth, tablet,
                   isInitialized, adFormatSize, sizeProps, dimensions, adViewRef,
                   depFormat, pc, renderInit, output, tabletQ, initQ, sizeQ,
                   forceUpdateCalls, warnings, commands, lastInit, changes, everRendered>>

\* The unmount: the native view goes away; the refs and the outstanding queries stay.
Unmount ==
    /\ mounted /\ pc = "idle"
    /\ mounted' = FALSE
    /\ renderScheduled' = FALSE
    /\ output' = NullOutput
    /\ UNCHANGED <<adFormat, adaptiveBannerEnabled, style, screenWidth, tablet,
                   isInitialized, adFormatSize, sizeProps, dimensions, adViewRef,
                   depFormat, pc, renderInit, tabletQ, initQ, sizeQ,
                   forceUpdateCalls, warnings, commands, lastInit, changes, everRendered>>

Next ==
    \/ Render
    \/ Effects
    \/ TabletResponse
    \/ \E result \in BOOLEAN : InitializedResponse(result)
    \/ \E i \in 1..Len(sizeQ), height \in AdaptiveHeights : HeightResponse(i, height)
    \/ LoadAd
    \/ \E st \in Styles : ChangeStyle(st)
    \/ \E w \in ScreenWidths : ChangeScreenWidth(w)
    \/ \E f \in AdFormat : ChangeAdFormat(f)
    \/ ChangeAdaptiveBannerEnabled
    \/ ParentRerender
    \/ Unmount

Spec == Init /\ [][Next]_vars

\* React runs every pass it has scheduled and the effects of every pass it has
\* committed; the native module answers every query it was sent. The parent, the
\* window and the caller of loadAd() are under no obligation.
Fairness ==
    /\ WF_vars(Render)
    /\ WF_vars(Effects)
    /\ WF_vars(TabletResponse)
    /\ WF_vars(\E result \in BOOLEAN : InitializedResponse(result))
    /\ WF_vars(\E i \in 1..Len(sizeQ), height \in AdaptiveHeights : HeightResponse(i, height))

FairSpec == Spec /\ Fairness

\* ---------------------------------------------------------------- properties

\* C1: every render pass returns the native view only if the most recent
\* isInitialized() response of the mount was true, and as long as no response has
\* arrived the render output is null.
C1_ViewOnlyWhenInitialized ==
    /\ [](lastInit = "none" => ~output.view)
    /\ [][Render => (output'.view => lastInit = "true")]_vars

\* C1 witness: the view is rendered after a true response.
C1_Witness == output.view /\ lastInit = "true" /\ dimensions # EmptyRecord

\* C2 (as claimed): the size handed to a rendered native view has a concrete width
\* and a concrete height.
C2_RenderedSizeConcrete ==
    output.view => (output.width > 0 /\ output.height > 0)

\* C3 (as claimed): a response to an adaptive-height query that arrives after the
\* unmount leaves dimensions unchanged and calls no forceUpdate().
C3_NoMutationAfterUnmount ==
    [][(~mounted /\ \E i \in 1..Len(sizeQ), h \in AdaptiveHeights : HeightResponse(i, h))
        => (dimensions' = dimensions /\ forceUpdateCalls' = forceUpdateCalls)]_vars

\* C4 (as claimed): last request wins; of two BANNER resolutions outstanding at once,
\* the response to the older one, arriving after the response to the younger one,
\* never overwrites dimensions.
C4_LastRequestWins ==
    [][\A i \in 1..Len(sizeQ), h \in AdaptiveHeights :
        (sizeQ[i].overtaken /\ HeightResponse(i, h)) => dimensions' = dimensions]_vars

\* C5 (as claimed): every adaptive-height query is issued with the resolved width as
\* its argument.
C5_QueryWithResolvedWidth ==
    \A i \in 1..Len(sizeQ) : sizeQ[i].arg = sizeQ[i].width

\* The height of the format default of the device: 90 on a tablet, 50 on a phone.
DeviceBannerHeight == IF tablet THEN ADVIEW_SIZE.leader.height ELSE ADVIEW_SIZE.banner.height

\* C6 (as claimed): a BANNER resolution with adaptiveBannerEnabled = false and no
\* declared height stores the format default height of the device class.
C6_DefaultHeightForDevice ==
    [][(Effects /\ sizeProps' # sizeProps /\ adFormat = BANNER
            /\ ~adaptiveBannerEnabled /\ sizeProps'.height = Auto)
        => dimensions'.height = DeviceBannerHeight]_vars

\* Nothing is left to run: no pass scheduled, no effects pending, no query outstanding.
Quiescent ==
    /\ pc = "idle" /\ ~renderScheduled
    /\ tabletQ = 0 /\ initQ = 0 /\ sizeQ = <<>>

\* C7 (as claimed): for a mounted, initialized BANNER with no declared width, once
\* nothing is left to run the resolved width is the current screen width.
C7_WidthFollowsScreen ==
    (Quiescent /\ mounted /\ isInitialized /\ adFormat = BANNER
        /\ style.width = Absent /\ sizeProps = getOutlineViewSize(style)
        /\ dimensions # EmptyRecord)
    => dimensions.width = screenWidth

\* C8: a resolution whose declared width and height are both concrete stores exactly
\* them and issues no adaptive-height query, for either format.
C8_ConcreteStyleUnchanged ==
    [][(Effects /\ sizeProps' # sizeProps
            /\ sizeProps'.width # Auto /\ sizeProps'.height # Auto)
        => (dimensions' = sizeProps' /\ sizeQ' = sizeQ)]_vars

\* C8 witness: a BANNER with adaptive banners enabled resolved to its declared size.
C8_Witness ==
    /\ adFormat = BANNER /\ adaptiveBannerEnabled
    /\ style = [width |-> 300, height |-> 250]
    /\ sizeProps = getOutlineViewSize(style)
    /\ dimensions = sizeProps
    /\ output.view /\ output.width = 300 /\ output.height = 250

\* C9 (as claimed): a step that resolves to the size already stored calls no
\* forceUpdate().
C9_NoUpdateForEqualSize ==
    [][(KeyCount(dimensions) > 0 /\ dimensions' = dimensions)
        => forceUpdateCalls' = forceUpdateCalls]_vars

\* C10 (as claimed): once an isInitialized() response was false (each one is logged,
\* so warnings > 0), for the rest of the mount no render pass returns the view, no
\* adaptive-height query is issued, and a loadAd() made while nothing is rendered
\* dispatches no command.
C10_FalseIsFinal ==
    [][(mounted /\ warnings > 0)
        => /\ (Render => ~output'.view)
           /\ Len(sizeQ') <= Len(sizeQ)
           /\ (~output.view => commands' = commands)]_vars

\* C11: with every scheduled pass run and every query answered, a mount whose latest
\* isInitialized() response is true comes to render the native view, unless it is
\* unmounted or a later isInitialized() response is false.
C11_EventuallyRendered ==
    (mounted /\ lastInit = "true") ~> (output.view \/ ~mounted \/ lastInit = "false")

\* C11 witness: a BANNER whose height was awaited from the native module is rendered.
C11_Witness ==
    /\ mounted /\ lastInit = "true" /\ output.view
    /\ adFormat = BANNER /\ output.height \in AdaptiveHeights /\ sizeQ = <<>>

\* C12: the effects of a pass whose declared width and height are those recorded by
\* the last resolution issue no adaptive-height query, leave sizeProps and dimensions
\* as they were and call no forceUpdate().
C12_SameStyleIsNoOp ==
    [][(Effects /\ SamePropsAsBefore(sizeProps, getOutlineViewSize(style)))
        => /\ sizeQ' = sizeQ
           /\ sizeProps' = sizeProps
           /\ dimensions' = dimensions
           /\ forceUpdateCalls' = forceUpdateCalls]_vars

\* C12 witness: with the props never changed, the pass that rendered the view ran its
\* effects on the declared size already recorded, and nothing is left to run.
C12_Witness ==
    /\ mounted /\ changes = 0 /\ isInitialized /\ output.view
    /\ pc = "idle" /\ ~renderScheduled
    /\ sizeProps = getOutlineViewSize(style)
    /\ forceUpdateCalls = 1

\* C13 (as claimed): at most one isTablet() query and at most one adaptive-height
\* query are outstanding at any time.
C13_AtMostOneQueryOfEachKind ==
    tabletQ <= 1 /\ Len(sizeQ) <= 1

\* C14 (as claimed): once the [adFormat] effect has run for MREC, adFormatSize is
\* 300x250; once it has run for BANNER and every isTablet() query has answered, it is
\* 728x90 on a tablet and 320x50 on a phone.
C14_FormatSizeOfCurrentFormat ==
    /\ (adFormat = MREC /\ depFormat = MREC) => adFormatSize = ADVIEW_SIZE.mrec
    /\ (adFormat = BANNER /\ depFormat = BANNER /\ tabletQ = 0)
        => adFormatSize = IF tablet THEN ADVIEW_SIZE.leader ELSE ADVIEW_SIZE.banner

C16_NoRenderLoop ==
    /\ [](forceUpdateCalls <= changes + 1)
    /\ []((mounted /\ Quiescent)
            => /\ output = RenderOutput(isInitialized, dimensions)
               /\ depFormat = adFormat
               /\ (isInitialized => sizeProps = getOutlineViewSize(style)))
    /\ []<>(~mounted \/ (pc = "idle" /\ ~renderScheduled))

\* C16 witness: after two changes of the declared size, each resolved and followed by
\* a forced pass, nothing is left to run.
C16_Witness ==
    /\ mounted /\ Quiescent /\ isInitialized /\ output.view
    /\ changes = 2 /\ forceUpdateCalls = 3

\* C17 (as claimed): an MREC resolution puts 300 for an undeclared width and 250 for
\* an undeclared height, and issues no adaptive-height query.
C17_MrecDefaults ==
    [][(Effects /\ adFormat = MREC /\ sizeProps' # sizeProps)
        => /\ (sizeProps'.width = Auto => dimensions'.width = ADVIEW_SIZE.mrec.width)
           /\ (sizeProps'.height = Auto => dimensions'.height = ADVIEW_SIZE.mrec.height)
           /\ sizeQ' = sizeQ]_vars

\* C18: once a pass has returned the native view and no isInitialized() response has
\* been false (none has been logged), every later pass returns the view, with the
\* size stored at that time: the previously resolved one until a new one is stored.
C18_StaysRendered ==
    [][(Render /\ output.view /\ warnings = 0)
        => (output'.view /\ output' = ViewOutput(dimensions))]_vars

\* C18 witness: the view is rendered with the previous size while the resolution that
\* a change of style started is still awaited, and the pass after the change is done.
C18_Witness ==
    /\ mounted /\ warnings = 0 /\ output.view
    /\ pc = "idle" /\ ~renderScheduled
    /\ sizeProps = getOutlineViewSize(style)
    /\ style.width = 300 /\ output.width = 390
    /\ sizeQ # <<>>

\* C19: loadAd() has dispatched a command only if some pass of this mount has
\* returned the native view, and a loadAd() made before any such pass changes nothing.
C19_LoadAdNeedsRenderedView ==
    /\ [](commands => everRendered)
    /\ [][(LoadAd /\ ~everRendered) => UNCHANGED vars]_vars

\* C19 witness: loadAd() has dispatched a command to a view that was rendered.
C19_Witness == commands /\ everRendered /\ adViewRef /\ mounted

====
